---- MODULE Spec2Model ----
(***************************************************************************)
(* A model of the MQTT dissector, epan/dissectors/packet-mqtt.c.           *)
(*                                                                         *)
(* The dissector is driven per TCP segment: dissect_mqtt_data hands the    *)
(* segment to tcp_dissect_pdus, which uses get_mqtt_pdu_len to size each   *)
(* PDU and calls dissect_mqtt on every complete one.  tcp_dissect_pdus,    *)
(* dissect_uleb128 and the tvbuff accessors live outside packet-mqtt.c;    *)
(* they are modelled from the design document (StreamReassembler,          *)
(* VarLengthCodec) and from what packet-mqtt.c itself says about them.     *)
(*                                                                         *)
(* A byte is an integer 0..255, a tvbuff a sequence of bytes, an offset is *)
(* 0-based as in the C code.                                               *)
(***************************************************************************)
EXTENDS Integers, Sequences, FiniteSets, TLC

\* ------------------------------------------------------------------------
\* Program constants (packet-mqtt.c #defines)

MQTT_PROTO_V31 == 3
MQTT_PROTO_V311 == 4
MQTT_HDR_SIZE_BEFORE_LEN == 1

MQTT_RESERVED == 0
MQTT_CONNECT == 1
MQTT_CONNACK == 2
MQTT_PUBLISH == 3
MQTT_PUBACK == 4
MQTT_PUBREC == 5
MQTT_PUBREL == 6
MQTT_PUBCOMP == 7
MQTT_SUBSCRIBE == 8
MQTT_SUBACK == 9
MQTT_UNSUBSCRIBE == 10
MQTT_UNSUBACK == 11
MQTT_PINGREQ == 12
MQTT_PINGRESP == 13
MQTT_DISCONNECT == 14
MQTT_RESERVED_15 == 15

MQTT_MASK_HDR_RESERVED == 15
MQTT_MASK_HDR_DUP_RESERVED == 7
MQTT_MASK_QOS == 6
MQTT_MASK_DUP_FLAG == 8
MQTT_MASK_RETAIN == 1

MQTT_CONMASK_USER == 128
MQTT_CONMASK_PASSWD == 64
MQTT_CONMASK_WILLFLAG == 4

\* The fixed_len argument dissect_mqtt_data gives tcp_dissect_pdus.
MQTT_MIN_LEN == 2

\* The remaining-length field has at most this many bytes (VarLengthCodec).
MaxLenBytes == 4

\* ------------------------------------------------------------------------
\* Bit arithmetic on bytes

RECURSIVE BitAnd(_, _)
BitAnd(x, y) ==
  IF x = 0 \/ y = 0 THEN 0
  ELSE (x % 2) * (y % 2) + 2 * BitAnd(x \div 2, y \div 2)

RECURSIVE Pow128(_)
Pow128(i) == IF i = 0 THEN 1 ELSE 128 * Pow128(i - 1)

\* ------------------------------------------------------------------------
\* tvbuff accessors: a read at or past the end of the tvbuff throws.

tvb_has(tvb, offset, n) == offset >= 0 /\ n >= 0 /\ offset + n <= Len(tvb)

tvb_get_guint8(tvb, offset) == tvb[offset + 1]

tvb_get_ntohs(tvb, offset) == tvb[offset + 1] * 256 + tvb[offset + 2]

tvb_bytes(tvb, offset, n) == SubSeq(tvb, offset + 1, offset + n)

tvb_reported_length_remaining(tvb, offset) == Len(tvb) - offset

\* ------------------------------------------------------------------------
\* VarLengthCodec.decode: low 7 bits of each byte, multipliers 1, 128,
\* 128^2, 128^3; bit 7 means "continue"; a 4th byte with bit 7 set is
\* MalformedLength; a byte that is not in the tvbuff is a bounds exception.

RECURSIVE uleb128_from(_, _, _, _)
uleb128_from(tvb, offset, i, acc) ==
  IF ~tvb_has(tvb, offset + i, 1)
  THEN [st |-> "BoundsError", value |-> 0, len |-> i]
  ELSE LET byte == tvb_get_guint8(tvb, offset + i)
           v    == acc + (byte % 128) * Pow128(i)
       IN  IF byte < 128
           THEN [st |-> "ok", value |-> v, len |-> i + 1]
           ELSE IF i + 1 >= MaxLenBytes
                THEN [st |-> "MalformedLength", value |-> 0, len |-> i + 1]
                ELSE uleb128_from(tvb, offset, i + 1, v)

\* Mutant of dissect_uleb128: the 4-byte cap is missing, the loop runs while
\* bit 7 is set (bits past the 28th are left out of the value).
RECURSIVE uleb128_nocap_from(_, _, _, _)
uleb128_nocap_from(tvb, offset, i, acc) ==
  IF ~tvb_has(tvb, offset + i, 1)
  THEN [st |-> "BoundsError", value |-> 0, len |-> i]
  ELSE LET byte == tvb_get_guint8(tvb, offset + i)
           v    == IF i < 4 THEN acc + (byte % 128) * Pow128(i) ELSE acc
       IN  IF byte < 128
           THEN [st |-> "ok", value |-> v, len |-> i + 1]
           ELSE uleb128_nocap_from(tvb, offset, i + 1, v)

dissect_uleb128_nocap(tvb, offset) == uleb128_nocap_from(tvb, offset, 0, 0)

dissect_uleb128(tvb, offset) == uleb128_from(tvb, offset, 0, 0)

\* ------------------------------------------------------------------------
\* get_mqtt_pdu_len: the length probe of the reassembler.
\* GET_MQTT_PDU_LEN(msg_len, len_offset) = msg_len + len_offset + 1.

\* Mutant of GET_MQTT_PDU_LEN: the fixed-header byte is not counted.
GET_MQTT_PDU_LEN_no_hdr(msg_len, len_offset) == msg_len + len_offset

GET_MQTT_PDU_LEN(msg_len, len_offset) ==
  msg_len + len_offset + MQTT_HDR_SIZE_BEFORE_LEN

\* Mutant of to_guint: the frame length is kept in 28 bits.
to_guint_28_bits(x) == x % 268435456

\* (guint) of a 64-bit value: its low 32 bits, taken as two 16-bit halves.
to_guint(x) == ((x \div 65536) % 65536) * 65536 + (x % 65536)

\* (gint) of a 64-bit value: its low 32 bits as a two's-complement number.
to_gint(x) ==
  IF (x \div 65536) % 65536 >= 32768
  THEN (((x \div 65536) % 65536) - 65536) * 65536 + (x % 65536)
  ELSE ((x \div 65536) % 65536) * 65536 + (x % 65536)

\* Mutant of get_mqtt_pdu_len: the length field is taken to be one byte.
get_mqtt_pdu_len_one_byte(tvb, offset) ==
  LET r == dissect_uleb128(tvb, offset + MQTT_HDR_SIZE_BEFORE_LEN)
  IN  [st |-> r.st,
       msg_len |-> r.value,
       len_offset |-> r.len,
       plen |-> IF r.st = "ok" THEN to_guint(GET_MQTT_PDU_LEN(r.value, 1))
                ELSE 0]

get_mqtt_pdu_len(tvb, offset) ==
  LET r == dissect_uleb128(tvb, offset + MQTT_HDR_SIZE_BEFORE_LEN)
  IN  [st |-> r.st,
       msg_len |-> r.value,
       len_offset |-> r.len,
       plen |-> IF r.st = "ok" THEN to_guint(GET_MQTT_PDU_LEN(r.value, r.len))
                ELSE 0]

\* ------------------------------------------------------------------------
\* dissect_mqtt: the Control Packet decoder.

\* Mutant of FlagLayout: the stored version is not looked at.
FlagLayout_any_version(mqtt_msg_type, runtime_proto_version) ==
  IF mqtt_msg_type = MQTT_PUBLISH
  THEN "dup_qos_retain"
  ELSE IF mqtt_msg_type = MQTT_PUBREL \/ mqtt_msg_type = MQTT_SUBSCRIBE
          \/ mqtt_msg_type = MQTT_UNSUBSCRIBE
       THEN "dup_reserved3"
       ELSE "reserved4"

\* The three readings of the low 4 bits of the fixed header.
FlagLayout(mqtt_msg_type, runtime_proto_version) ==
  IF mqtt_msg_type = MQTT_PUBLISH
  THEN "dup_qos_retain"
  ELSE IF runtime_proto_version = MQTT_PROTO_V31
          /\ (mqtt_msg_type = MQTT_PUBREL \/ mqtt_msg_type = MQTT_SUBSCRIBE
              \/ mqtt_msg_type = MQTT_UNSUBSCRIBE)
       THEN "dup_reserved3"
       ELSE "reserved4"

\* The value shown in the reserved field of the layout.
HdrReserved(mqtt_fixed_hdr, layout) ==
  IF layout = "dup_reserved3"
  THEN BitAnd(mqtt_fixed_hdr, MQTT_MASK_HDR_DUP_RESERVED)
  ELSE IF layout = "reserved4"
       THEN BitAnd(mqtt_fixed_hdr, MQTT_MASK_HDR_RESERVED)
       ELSE 0

\* The decoder's cursor and counters while it walks one frame.  err is the
\* exception a tvbuff access threw, "none" while none was thrown; a step
\* after an exception does nothing.
Cursor(offset, mqtt_msg_len, version) ==
  [offset |-> offset, mqtt_msg_len |-> mqtt_msg_len, mqtt_str_len |-> 0,
   mqtt_con_flags |-> 0, version |-> version, fields |-> <<>>,
   err |-> "none"]

Throw(s) == [s EXCEPT !.err = "TruncatedFrame"]

\* mqtt_str_len = tvb_get_ntohs(tvb, offset)
GetStrLen(s, tvb) ==
  IF s.err # "none" THEN s
  ELSE IF ~tvb_has(tvb, s.offset, 2) THEN Throw(s)
  ELSE [s EXCEPT !.mqtt_str_len = tvb_get_ntohs(tvb, s.offset)]

\* Mutant of AddItem: no bounds check, the item takes what is there.
AddItem_unchecked(s, tvb, hf, length) ==
  IF s.err # "none" THEN s
  ELSE LET avail == IF Len(tvb) > s.offset THEN Len(tvb) - s.offset ELSE 0
           n     == IF length < 0 \/ length > avail THEN avail ELSE length
       IN  [s EXCEPT !.fields =
              Append(@, [hf |-> hf,
                         bytes |-> IF n = 0 THEN <<>>
                                   ELSE tvb_bytes(tvb, s.offset, n)])]

\* proto_tree_add_item(tree, hf, tvb, offset, length, enc); a length of -1
\* takes the rest of the tvbuff.
AddItem(s, tvb, hf, length) ==
  IF s.err # "none" THEN s
  ELSE LET n == IF length = -1
                THEN tvb_reported_length_remaining(tvb, s.offset)
                ELSE length
       IN  IF ~tvb_has(tvb, s.offset, n) THEN Throw(s)
           ELSE [s EXCEPT !.fields =
                   Append(@, [hf |-> hf, bytes |-> tvb_bytes(tvb, s.offset, n)])]

\* offset += n
Adv(s, n) == IF s.err # "none" THEN s ELSE [s EXCEPT !.offset = @ + n]

\* mqtt_msg_len -= n
Dec(s, n) == IF s.err # "none" THEN s ELSE [s EXCEPT !.mqtt_msg_len = @ - n]

\* A 16-bit length, then the string of that length.
StringOf(s, tvb, hf_str) ==
  Adv(AddItem(s, tvb, hf_str, s.mqtt_str_len), s.mqtt_str_len)

LenAndString(s, tvb, hf_len, hf_str) ==
  StringOf(Adv(AddItem(GetStrLen(s, tvb), tvb, hf_len, 2), 2), tvb, hf_str)

\* Mutant of connect_version: the version is stored by the first CONNECT
\* only.
connect_version_first_only(tvb, s) ==
  IF s.err # "none" THEN s
  ELSE IF ~tvb_has(tvb, s.offset, 1) THEN Throw(s)
  ELSE Adv(AddItem([s EXCEPT !.version = IF @ = 0
                                         THEN tvb_get_guint8(tvb, s.offset)
                                         ELSE @],
                   tvb, "proto_ver", 1), 1)

\* mqtt->runtime_proto_version = tvb_get_guint8(tvb, offset), and the
\* version item.
connect_version(tvb, s) ==
  IF s.err # "none" THEN s
  ELSE IF ~tvb_has(tvb, s.offset, 1) THEN Throw(s)
  ELSE Adv(AddItem([s EXCEPT !.version = tvb_get_guint8(tvb, s.offset)],
                   tvb, "proto_ver", 1), 1)

\* mqtt_con_flags = tvb_get_guint8(tvb, offset), and the flags item.
connect_flags(tvb, s) ==
  IF s.err # "none" THEN s
  ELSE IF ~tvb_has(tvb, s.offset, 1) THEN Throw(s)
  ELSE Adv(AddItem([s EXCEPT !.mqtt_con_flags = tvb_get_guint8(tvb, s.offset)],
                   tvb, "conflags", 1), 1)

\* if(mqtt_con_flags & MQTT_CONMASK_WILLFLAG), twice: topic, then message.
connect_will(tvb, s) ==
  IF s.err = "none" /\ BitAnd(s.mqtt_con_flags, MQTT_CONMASK_WILLFLAG) # 0
  THEN LenAndString(LenAndString(s, tvb, "will_topic_len", "will_topic"),
                    tvb, "will_msg_len", "will_msg")
  ELSE s

\* Mutant of connect_user: the user name is read whenever its flag is set.
connect_user_unchecked(tvb, s) ==
  IF s.err = "none"
     /\ BitAnd(s.mqtt_con_flags, MQTT_CONMASK_USER) # 0
  THEN LenAndString(s, tvb, "username_len", "username")
  ELSE s

\* if((mqtt_con_flags & MQTT_CONMASK_USER) && bytes remain)
connect_user(tvb, s) ==
  IF s.err = "none"
     /\ BitAnd(s.mqtt_con_flags, MQTT_CONMASK_USER) # 0
     /\ tvb_reported_length_remaining(tvb, s.offset) > 0
  THEN LenAndString(s, tvb, "username_len", "username")
  ELSE s

\* The password string: the cursor is not moved past it.
passwd_string(tvb, s) == AddItem(s, tvb, "passwd", s.mqtt_str_len)

\* if((mqtt_con_flags & MQTT_CONMASK_PASSWD) && bytes remain)
connect_passwd(tvb, s) ==
  IF s.err = "none"
     /\ BitAnd(s.mqtt_con_flags, MQTT_CONMASK_PASSWD) # 0
     /\ tvb_reported_length_remaining(tvb, s.offset) > 0
  THEN passwd_string(tvb, Adv(AddItem(GetStrLen(s, tvb), tvb, "passwd_len", 2), 2))
  ELSE s

\* The fields of CONNECT up to the client id.
connect_fixed(tvb, s) ==
  LenAndString(
    Adv(AddItem(
      connect_flags(tvb,
        connect_version(tvb,
          LenAndString(s, tvb, "proto_len", "proto_name"))),
      tvb, "keep_alive", 2), 2),
    tvb, "client_id_len", "client_id")

\* case MQTT_CONNECT
dissect_connect(tvb, s) ==
  connect_passwd(tvb, connect_user(tvb, connect_will(tvb, connect_fixed(tvb, s))))

\* case MQTT_CONNACK
dissect_connack(tvb, s) ==
  AddItem(Adv(AddItem(s, tvb, "conack_flags", 1), 1), tvb, "conack_code", 1)

\* Mutant of TopicString: the topic is not counted off mqtt_msg_len.
TopicString_uncounted(s, tvb) ==
  Adv(AddItem(s, tvb, "topic", s.mqtt_str_len), s.mqtt_str_len)

\* The topic string, counted off mqtt_msg_len.
TopicString(s, tvb) ==
  Dec(Adv(AddItem(s, tvb, "topic", s.mqtt_str_len), s.mqtt_str_len),
      s.mqtt_str_len)

\* A topic with its 16-bit length, both counted off mqtt_msg_len (PUBLISH,
\* and each entry of SUBSCRIBE and UNSUBSCRIBE).
TopicEntry(s, tvb) ==
  TopicString(Dec(Adv(AddItem(GetStrLen(s, tvb), tvb, "topic_len", 2), 2), 2), tvb)

\* Mutant of publish_msgid: the message id is read whatever the QoS.
publish_msgid_always(tvb, s, mqtt_fixed_hdr) ==
  Dec(Adv(AddItem(s, tvb, "msgid", 2), 2), 2)

\* case MQTT_PUBLISH
publish_msgid(tvb, s, mqtt_fixed_hdr) ==
  IF BitAnd(mqtt_fixed_hdr, MQTT_MASK_QOS) # 0
  THEN Dec(Adv(AddItem(s, tvb, "msgid", 2), 2), 2)
  ELSE s

\* The application message: whatever mqtt_msg_len says is left.
publish_message(tvb, s) == AddItem(s, tvb, "pubmsg", s.mqtt_msg_len)

dissect_publish(tvb, s, mqtt_fixed_hdr) ==
  publish_message(tvb, publish_msgid(tvb, TopicEntry(s, tvb), mqtt_fixed_hdr))

\* Mutant of subscribe_entry: the QoS byte is read only while the counter
\* says bytes are left.
subscribe_entry_lenient(tvb, s) ==
  LET t == TopicEntry(s, tvb)
  IN  IF t.err = "none" /\ t.mqtt_msg_len > 0
      THEN Dec(Adv(AddItem(t, tvb, "sub_qos", 1), 1), 1)
      ELSE t

\* One pass of the SUBSCRIBE loop body: |TopicName|QoS|
subscribe_entry(tvb, s) ==
  Dec(Adv(AddItem(TopicEntry(s, tvb), tvb, "sub_qos", 1), 1), 1)

RECURSIVE subscribe_loop(_, _)
subscribe_loop(tvb, s) ==
  IF s.err # "none" \/ ~(s.mqtt_msg_len > 0) THEN s
  ELSE subscribe_loop(tvb, subscribe_entry(tvb, s))

\* case MQTT_SUBSCRIBE
dissect_subscribe(tvb, s) ==
  subscribe_loop(tvb, Dec(Adv(AddItem(s, tvb, "msgid", 2), 2), 2))

\* One pass of the UNSUBSCRIBE loop body: |TopicName|
unsubscribe_entry(tvb, s) == TopicEntry(s, tvb)

RECURSIVE unsubscribe_loop(_, _)
unsubscribe_loop(tvb, s) ==
  IF s.err # "none" \/ ~(s.mqtt_msg_len > 0) THEN s
  ELSE unsubscribe_loop(tvb, unsubscribe_entry(tvb, s))

\* case MQTT_UNSUBSCRIBE
dissect_unsubscribe(tvb, s) ==
  unsubscribe_loop(tvb, Dec(Adv(AddItem(s, tvb, "msgid", 2), 2), 2))

\* Mutant of suback_loop: an entry is taken to be two bytes.
RECURSIVE suback_loop_two_bytes(_, _)
suback_loop_two_bytes(tvb, s) ==
  IF s.err # "none" \/ ~(s.mqtt_msg_len > 0) THEN s
  ELSE suback_loop_two_bytes(tvb,
         Dec(Adv(AddItem(s, tvb, "suback_qos", 2), 2), 2))

RECURSIVE suback_loop(_, _)
suback_loop(tvb, s) ==
  IF s.err # "none" \/ ~(s.mqtt_msg_len > 0) THEN s
  ELSE suback_loop(tvb, Dec(Adv(AddItem(s, tvb, "suback_qos", 1), 1), 1))

\* case MQTT_SUBACK
dissect_suback(tvb, s) ==
  suback_loop(tvb, Dec(Adv(AddItem(s, tvb, "msgid", 2), 2), 2))

\* Mutant of dissect_msgid_only: a remaining length other than 2 is an
\* error.
dissect_msgid_only_exact(tvb, s) ==
  IF s.err = "none" /\ s.mqtt_msg_len # 2 THEN Throw(s)
  ELSE AddItem(s, tvb, "msgid", 2)

\* case MQTT_PUBACK, PUBREC, PUBREL, PUBCOMP, UNSUBACK
dissect_msgid_only(tvb, s) == AddItem(s, tvb, "msgid", 2)

\* Mutant of dissect_body: a reserved packet type is an error.
dissect_body_reserved_throws(tvb, s, mqtt_msg_type, mqtt_fixed_hdr) ==
  CASE mqtt_msg_type = MQTT_CONNECT     -> dissect_connect(tvb, s)
    [] mqtt_msg_type = MQTT_CONNACK     -> dissect_connack(tvb, s)
    [] mqtt_msg_type = MQTT_PUBLISH     -> dissect_publish(tvb, s, mqtt_fixed_hdr)
    [] mqtt_msg_type = MQTT_SUBSCRIBE   -> dissect_subscribe(tvb, s)
    [] mqtt_msg_type = MQTT_UNSUBSCRIBE -> dissect_unsubscribe(tvb, s)
    [] mqtt_msg_type = MQTT_SUBACK      -> dissect_suback(tvb, s)
    [] mqtt_msg_type \in {MQTT_PUBACK, MQTT_PUBREC, MQTT_PUBREL,
                          MQTT_PUBCOMP, MQTT_UNSUBACK}
                                        -> dissect_msgid_only(tvb, s)
    [] mqtt_msg_type \in {MQTT_RESERVED, MQTT_RESERVED_15}
                                        -> Throw(s)
    [] OTHER                            -> s

\* switch(mqtt_msg_type)
dissect_body(tvb, s, mqtt_msg_type, mqtt_fixed_hdr) ==
  CASE mqtt_msg_type = MQTT_CONNECT     -> dissect_connect(tvb, s)
    [] mqtt_msg_type = MQTT_CONNACK     -> dissect_connack(tvb, s)
    [] mqtt_msg_type = MQTT_PUBLISH     -> dissect_publish(tvb, s, mqtt_fixed_hdr)
    [] mqtt_msg_type = MQTT_SUBSCRIBE   -> dissect_subscribe(tvb, s)
    [] mqtt_msg_type = MQTT_UNSUBSCRIBE -> dissect_unsubscribe(tvb, s)
    [] mqtt_msg_type = MQTT_SUBACK      -> dissect_suback(tvb, s)
    [] mqtt_msg_type \in {MQTT_PUBACK, MQTT_PUBREC, MQTT_PUBREL,
                          MQTT_PUBCOMP, MQTT_UNSUBACK}
                                        -> dissect_msgid_only(tvb, s)
    [] OTHER                            -> s

\* Mutant of offset_after_len: the step over the fixed header byte is lost.
offset_after_len_no_hdr(mqtt_len_offset) == 0 + mqtt_len_offset

\* offset += 1; ...; offset += mqtt_len_offset: the cursor after the fixed
\* header byte and the remaining-length field.
offset_after_len(mqtt_len_offset) == 0 + 1 + mqtt_len_offset

\* The fixed header: type, flag layout, the re-parse of the remaining
\* length and the cursor after it.
dissect_header(tvb, runtime_proto_version) ==
  LET mqtt_fixed_hdr == tvb_get_guint8(tvb, 0)
      mqtt_msg_type  == mqtt_fixed_hdr \div 16
      r      == dissect_uleb128(tvb, 0 + MQTT_HDR_SIZE_BEFORE_LEN)
      layout == FlagLayout(mqtt_msg_type, runtime_proto_version)
  IN  [mqtt_fixed_hdr |-> mqtt_fixed_hdr,
       mqtt_msg_type |-> mqtt_msg_type,
       st |-> r.st,
       msg_len |-> r.value,
       mqtt_msg_len |-> to_gint(r.value),
       mqtt_len_offset |-> r.len,
       layout |-> layout,
       hdr_reserved |-> HdrReserved(mqtt_fixed_hdr, layout),
       offset |-> offset_after_len(r.len)]

\* The locals of dissect_mqtt when it returns or throws: offset,
\* mqtt_msg_len, the items added and the exception, if any.
dissect_cursor(tvb, mqtt) ==
  LET h == dissect_header(tvb, mqtt.runtime_proto_version)
  IN  IF h.st = "ok"
      THEN dissect_body(tvb,
                        Cursor(h.offset, h.mqtt_msg_len,
                               mqtt.runtime_proto_version),
                        h.mqtt_msg_type, h.mqtt_fixed_hdr)
      ELSE [Cursor(h.offset, 0, mqtt.runtime_proto_version)
              EXCEPT !.err = h.st]

\* Mutant of dissect_mqtt: the version is stored only by a decode that
\* returns.
dissect_mqtt_commit_on_return(tvb, mqtt) ==
  LET h == dissect_header(tvb, mqtt.runtime_proto_version)
      s == dissect_cursor(tvb, mqtt)
  IN  [pkt |-> [mqtt_msg_type |-> h.mqtt_msg_type,
                mqtt_fixed_hdr |-> h.mqtt_fixed_hdr,
                layout |-> h.layout,
                hdr_reserved |-> h.hdr_reserved,
                msg_len |-> h.msg_len,
                mqtt_len_offset |-> h.mqtt_len_offset,
                fields |-> s.fields,
                err |-> s.err],
       mqtt |-> [runtime_proto_version |->
                   IF s.err = "none" THEN s.version
                   ELSE mqtt.runtime_proto_version]]

\* dissect_mqtt(tvb, ...) with the conversation's mqtt_conv: the decoded
\* packet and the mqtt_conv it leaves behind.
dissect_mqtt(tvb, mqtt) ==
  LET h == dissect_header(tvb, mqtt.runtime_proto_version)
      s == dissect_cursor(tvb, mqtt)
  IN  [pkt |-> [mqtt_msg_type |-> h.mqtt_msg_type,
                mqtt_fixed_hdr |-> h.mqtt_fixed_hdr,
                layout |-> h.layout,
                hdr_reserved |-> h.hdr_reserved,
                msg_len |-> h.msg_len,
                mqtt_len_offset |-> h.mqtt_len_offset,
                fields |-> s.fields,
                err |-> s.err],
       mqtt |-> [runtime_proto_version |-> s.version]]

\* ------------------------------------------------------------------------
\* VarLengthCodec.encode: the minimal encoding, low 7 bits first.

MaxRemainingLength == 268435455

RECURSIVE encode(_)
encode(v) ==
  IF v < 128 THEN <<v>>
  ELSE <<(v % 128) + 128>> \o encode(v \div 128)

\* ------------------------------------------------------------------------
\* Frames and streams the model is run on.

Zeros(n) == [i \in 1..n |-> 0]

\* CONNECT, protocol name "MQTT", clean session, keep-alive 60, empty
\* client id, with the given version byte.
ConnectFrame(version) ==
  <<16, 12, 0, 4, 77, 81, 84, 84, version, 2, 0, 60, 0, 0>>

\* SUBSCRIBE, message id 1, topic filter "a", requested QoS 1.
SubscribeFrame == <<130, 6, 0, 1, 0, 1, 97, 1>>

\* PINGREQ
PingReqFrame == <<192, 0>>

\* PUBACK, message id 2.
PubAckFrame == <<64, 2, 0, 2>>

\* SUBSCRIBE whose remaining length ends inside the first entry.
BadSubscribeFrame == <<130, 3, 0, 1, 0>>

\* The size of the application message of the long PUBLISH: with it the
\* remaining length is LongPayload + 5 >= 128 and takes two bytes.
LongPayload == 123

\* PUBLISH QoS 1, topic "a", message id 7, LongPayload message bytes.
PublishLongFrame ==
  <<50>> \o encode(LongPayload + 5) \o <<0, 1, 97, 0, 7>> \o Zeros(LongPayload)

\* A remaining-length field whose 4th byte still has bit 7 set.
MalformedLenBytes == <<48, 128, 128, 128, 128, 1>>

\* The head of a PUBLISH that announces the largest remaining length.
HugeLenBytes == <<48, 255, 255, 255, 127, 0, 1>>

\* CONNECT whose remaining length ends inside the keep-alive, after the
\* version byte and the connect flags.
TruncConnectFrame(version) == <<16, 9, 0, 4, 77, 81, 84, 84, version, 2, 0>>

\* CONNECT whose remaining length ends right after the version byte.
VersionOnlyConnectFrame(version) == <<16, 7, 0, 4, 77, 81, 84, 84, version>>

\* CONNECT whose remaining length ends inside the protocol name, before the
\* version byte.
HeadlessConnectFrame == <<16, 3, 0, 4, 77>>

\* Frames of the two reserved packet types, one with a body.
Reserved0Frame == <<0, 3, 1, 2, 3>>

Reserved15Frame == <<240, 0>>

\* Frames of the fixed-shape packet types whose remaining length is larger
\* than the fields they have: CONNACK, PUBACK, PUBREC, PUBREL, PUBCOMP,
\* UNSUBACK, PINGREQ, PINGRESP, DISCONNECT.
PaddedFrames ==
  << <<32, 3, 0, 0, 9>>, <<64, 3, 0, 2, 9>>, <<80, 3, 0, 2, 9>>,
     <<98, 4, 0, 2, 9, 9>>, <<112, 3, 0, 2, 9>>, <<176, 3, 0, 2, 9>>,
     <<192, 2, 9, 9>>, <<208, 1, 9>>, <<224, 1, 9>> >>

RECURSIVE Concat(_)
Concat(fs) == IF fs = <<>> THEN <<>> ELSE Head(fs) \o Concat(Tail(fs))

PaddedStream == Concat(PaddedFrames) \o SubscribeFrame

Conns == {"A", "B"}

\* The count of chunks is kept up to this many ("this many or more").
MaxFeeds == 3

\* The byte streams of the two connections, one modelled direction each.
Scenarios ==
  { [A |-> ConnectFrame(MQTT_PROTO_V31) \o SubscribeFrame, B |-> SubscribeFrame],
    [A |-> SubscribeFrame \o ConnectFrame(MQTT_PROTO_V311) \o SubscribeFrame,
     B |-> <<>>],
    [A |-> PingReqFrame \o PubAckFrame \o SubscribeFrame, B |-> PingReqFrame],
    [A |-> PublishLongFrame, B |-> <<>>],
    [A |-> PingReqFrame \o MalformedLenBytes \o PingReqFrame, B |-> PubAckFrame],
    [A |-> PubAckFrame \o HugeLenBytes, B |-> <<>>],
    [A |-> ConnectFrame(MQTT_PROTO_V31) \o BadSubscribeFrame \o PubAckFrame,
     B |-> <<>>],
    [A |-> ConnectFrame(MQTT_PROTO_V31) \o ConnectFrame(MQTT_PROTO_V311)
           \o SubscribeFrame,
     B |-> <<>>],
    [A |-> ConnectFrame(MQTT_PROTO_V31) \o Reserved0Frame \o Reserved15Frame
           \o SubscribeFrame,
     B |-> <<>>],
    [A |-> ConnectFrame(MQTT_PROTO_V31) \o TruncConnectFrame(MQTT_PROTO_V311)
           \o SubscribeFrame,
     B |-> <<>>],
    [A |-> ConnectFrame(MQTT_PROTO_V31) \o HeadlessConnectFrame
           \o SubscribeFrame,
     B |-> <<>>],
    [A |-> ConnectFrame(MQTT_PROTO_V31)
           \o VersionOnlyConnectFrame(MQTT_PROTO_V311) \o SubscribeFrame,
     B |-> <<>>],
    [A |-> PaddedStream, B |-> <<>>] }

\* The frames each scenario's streams are made of, when they are made of
\* complete valid frames.
FramesOf(s) ==
  CASE s = ConnectFrame(MQTT_PROTO_V31) \o SubscribeFrame
         -> <<ConnectFrame(MQTT_PROTO_V31), SubscribeFrame>>
    [] s = SubscribeFrame \o ConnectFrame(MQTT_PROTO_V311) \o SubscribeFrame
         -> <<SubscribeFrame, ConnectFrame(MQTT_PROTO_V311), SubscribeFrame>>
    [] s = PingReqFrame \o PubAckFrame \o SubscribeFrame
         -> <<PingReqFrame, PubAckFrame, SubscribeFrame>>
    [] s = SubscribeFrame -> <<SubscribeFrame>>
    [] s = ConnectFrame(MQTT_PROTO_V31) -> <<ConnectFrame(MQTT_PROTO_V31)>>
    [] s = PingReqFrame -> <<PingReqFrame>>
    [] s = PubAckFrame -> <<PubAckFrame>>
    [] s = PublishLongFrame -> <<PublishLongFrame>>
    [] OTHER -> <<>>

\* ------------------------------------------------------------------------
\* State

VARIABLES
  stream,    \* per connection: the bytes the transport will deliver
  pos,       \* per connection: how many of them have been fed
  nfeeds,    \* per connection: how many chunks they were fed in, up to MaxFeeds
  unit,      \* per connection: every chunk so far was a single byte
  buf,       \* per connection: bytes fed and not yet consumed
  frames,    \* per connection: the frames extracted so far, in order
  decoded,   \* per connection: the packets dissect_mqtt made of them
  conv,      \* per connection: its mqtt_conv
  pc,        \* per connection: "feed" (waiting for a segment) or "extract"
  last,      \* per connection: what the last extraction attempt reported
  stopped,   \* per connection: the direction was stopped by MalformedLength
  tvb_in,    \* codec runs: the bytes offered to the length decode
  ver_in,    \* codec runs: the stored protocol version
  probe,     \* codec runs: what get_mqtt_pdu_len made of tvb_in
  hdr,       \* codec runs: what the decoder's header parse made of tvb_in
  enc_in,    \* codec runs: the value tvb_in's length field encodes, or -1
  frame_in,  \* decoder runs: the frame handed to dissect_mqtt
  mqtt_in,   \* decoder runs: the mqtt_conv of its conversation
  result     \* decoder runs: what dissect_mqtt made of frame_in

streamVars == <<stream, pos, nfeeds, unit, buf, frames, decoded, conv, pc, last, stopped>>
codecVars == <<tvb_in, ver_in, probe, hdr, enc_in>>
decVars == <<frame_in, mqtt_in, result>>
vars == <<stream, pos, nfeeds, unit, buf, frames, decoded, conv, pc, last, stopped,
          tvb_in, ver_in, probe, hdr, enc_in, frame_in, mqtt_in, result>>

\* wmem_new0: a fresh mqtt_conv is zeroed.
NewConv == [runtime_proto_version |-> 0]

InitStreams(sc) ==
  /\ stream = sc
  /\ pos = [c \in Conns |-> 0]
  /\ nfeeds = [c \in Conns |-> 0]
  /\ unit = [c \in Conns |-> TRUE]
  /\ buf = [c \in Conns |-> <<>>]
  /\ frames = [c \in Conns |-> <<>>]
  /\ decoded = [c \in Conns |-> <<>>]
  /\ conv = [c \in Conns |-> NewConv]
  /\ pc = [c \in Conns |-> "feed"]
  /\ last = [c \in Conns |-> "none"]
  /\ stopped = [c \in Conns |-> FALSE]

NoProbe == [st |-> "none", msg_len |-> 0, len_offset |-> 0, plen |-> 0]

NoHdr ==
  [mqtt_fixed_hdr |-> 0, mqtt_msg_type |-> 0, st |-> "none", msg_len |-> 0,
   mqtt_msg_len |-> 0, mqtt_len_offset |-> 0, layout |-> "none", hdr_reserved |-> 0, offset |-> 0]

InitCodec(t, v) ==
  /\ tvb_in = t
  /\ ver_in = v
  /\ probe = NoProbe
  /\ hdr = NoHdr
  /\ enc_in = -1

NoPkt ==
  [mqtt_msg_type |-> 0, mqtt_fixed_hdr |-> 0, layout |-> "none",
   hdr_reserved |-> 0, msg_len |-> 0, mqtt_len_offset |-> 0,
   fields |-> <<>>, err |-> "none"]

NoResult ==
  [st |-> "none", pkt |-> NoPkt, mqtt |-> NewConv, offset |-> 0,
   mqtt_msg_len |-> 0]

InitDecoder(f, m) ==
  /\ frame_in = f
  /\ mqtt_in = m
  /\ result = NoResult

Init ==
  /\ \E sc \in Scenarios : InitStreams(sc)
  /\ InitCodec(<<>>, 0)
  /\ InitDecoder(<<>>, NewConv)

\* ------------------------------------------------------------------------
\* The reassembler: dissect_mqtt_data -> tcp_dissect_pdus

\* static gboolean reassemble_mqtt_over_tcp = TRUE: the value handed to
\* tcp_dissect_pdus as proto_desegment.  Nothing assigns it and no
\* preference is registered for it.
reassemble_mqtt_over_tcp == TRUE

\* feed(chunk): the next k bytes of the stream arrive as one segment; with
\* reassembly on, the bytes waiting for the rest of their PDU precede them.
Feed(c, k) ==
  /\ pc[c] = "feed"
  /\ k \in 1..(Len(stream[c]) - pos[c])
  /\ buf' = [buf EXCEPT ![c] = (IF reassemble_mqtt_over_tcp THEN @ ELSE <<>>)
                                \o SubSeq(stream[c], pos[c] + 1, pos[c] + k)]
  /\ pos' = [pos EXCEPT ![c] = @ + k]
  /\ nfeeds' = [nfeeds EXCEPT ![c] = IF @ < MaxFeeds THEN @ + 1 ELSE @]
  /\ unit' = [unit EXCEPT ![c] = @ /\ k = 1]
  /\ pc' = [pc EXCEPT ![c] = "extract"]
  /\ UNCHANGED <<stream, frames, decoded, conv, last, stopped, codecVars, decVars>>

\* Mutant of conversation_get_proto_data: one mqtt_conv for all connections.
conversation_shared(cv, c) == cv["A"]

\* Mutant of conversation_get_proto_data: a fresh mqtt_conv for every packet.
conversation_always_new(cv, c) == [runtime_proto_version |-> 0]

\* find_or_create_conversation + conversation_get_proto_data: the mqtt_conv
\* of the connection the frame belongs to.
conversation_get_proto_data(cv, c) == cv[c]

\* Mutant of ExtractOutcome: a malformed length field is stepped over as a
\* frame of its 5 bytes.
ExtractOutcome_resync(b) ==
  IF Len(b) < MQTT_MIN_LEN THEN [kind |-> "NeedMoreBytes", plen |-> 0]
  ELSE LET r == get_mqtt_pdu_len(b, 0)
       IN  IF r.st = "BoundsError" THEN [kind |-> "Exception", plen |-> 0]
           ELSE IF r.st = "MalformedLength"
                THEN [kind |-> "Frame", plen |-> 5]
           ELSE IF Len(b) < r.plen
                THEN [kind |-> "NeedMoreBytes", plen |-> r.plen]
           ELSE [kind |-> "Frame", plen |-> r.plen]

\* What one pass of the tcp_dissect_pdus loop makes of the buffered bytes.
\*   NeedMoreBytes   fewer than fixed_len bytes, or fewer than the PDU needs
\*   Exception       the length field runs past the buffered bytes: the
\*                   tvbuff access in dissect_uleb128 throws out of
\*                   get_mqtt_pdu_len (comment above dissect_mqtt_data)
\*   MalformedLength the length field would need a 5th byte
\*   Frame           a complete PDU of plen bytes
ExtractOutcome(b) ==
  IF Len(b) < MQTT_MIN_LEN THEN [kind |-> "NeedMoreBytes", plen |-> 0]
  ELSE LET r == get_mqtt_pdu_len(b, 0)
       IN  IF r.st = "BoundsError" THEN [kind |-> "Exception", plen |-> 0]
           ELSE IF r.st = "MalformedLength"
                THEN [kind |-> "MalformedLength", plen |-> 0]
           ELSE IF Len(b) < r.plen
                THEN [kind |-> "NeedMoreBytes", plen |-> r.plen]
           ELSE [kind |-> "Frame", plen |-> r.plen]

\* Mutant of after_pdu: an exception out of dissect_mqtt ends the work on
\* the buffered bytes.
after_pdu_drop_on_error(b, plen, err) ==
  IF err # "none" THEN <<>> ELSE SubSeq(b, plen + 1, Len(b))

\* The buffered bytes after a PDU of plen bytes was handed to dissect_mqtt:
\* the loop steps over the PDU whether dissect_mqtt returned or threw.
after_pdu(b, plen, err) == SubSeq(b, plen + 1, Len(b))

\* try_extract_frame(): one pass of the loop, with the call of dissect_mqtt
\* on the frame it slices out.
TryExtractFrame(c) ==
  /\ pc[c] = "extract"
  /\ LET o == ExtractOutcome(buf[c])
     IN  IF stopped[c]
         THEN /\ last' = [last EXCEPT ![c] = "Stopped"]
              /\ pc' = [pc EXCEPT ![c] = "feed"]
              /\ UNCHANGED <<buf, frames, decoded, conv, stopped>>
         ELSE
         CASE o.kind = "Frame" ->
                LET frame == SubSeq(buf[c], 1, o.plen)
                    d     == dissect_mqtt(frame, conversation_get_proto_data(conv, c))
                IN  /\ frames' = [frames EXCEPT ![c] = Append(@, frame)]
                    /\ decoded' = [decoded EXCEPT ![c] = Append(@, d.pkt)]
                    /\ conv' = [conv EXCEPT ![c] = d.mqtt]
                    /\ buf' = [buf EXCEPT ![c] = after_pdu(@, o.plen, d.pkt.err)]
                    /\ last' = [last EXCEPT ![c] = "Frame"]
                    /\ UNCHANGED <<pc, stopped>>
           [] o.kind = "NeedMoreBytes" ->
                /\ last' = [last EXCEPT ![c] = "NeedMoreBytes"]
                /\ pc' = [pc EXCEPT ![c] = "feed"]
                /\ UNCHANGED <<buf, frames, decoded, conv, stopped>>
           [] o.kind = "Exception" ->
                \* No desegmentation was requested: the bytes of the
                \* segment are not offered again.
                /\ last' = [last EXCEPT ![c] = "Exception"]
                /\ buf' = [buf EXCEPT ![c] = <<>>]
                /\ pc' = [pc EXCEPT ![c] = "feed"]
                /\ UNCHANGED <<frames, decoded, conv, stopped>>
           [] o.kind = "MalformedLength" ->
                /\ last' = [last EXCEPT ![c] = "MalformedLength"]
                /\ stopped' = [stopped EXCEPT ![c] = TRUE]
                /\ pc' = [pc EXCEPT ![c] = "feed"]
                /\ UNCHANGED <<buf, frames, decoded, conv>>
  /\ UNCHANGED <<stream, pos, nfeeds, unit, codecVars, decVars>>

Next ==
  \/ \E c \in Conns : \E k \in 1..(Len(stream[c]) - pos[c]) : Feed(c, k)
  \/ \E c \in Conns : TryExtractFrame(c)

Spec == Init /\ [][Next]_vars

\* ------------------------------------------------------------------------
\* Codec runs: the length probe and the decoder's header parse applied to
\* candidate frame heads, as when a segment is a frame attempt of its own.

\* Bytes a length field is built from: last byte and continuation byte,
\* each with all-zero and all-one low bits.
CodecBytes == {0, 127, 128, 255}

\* The longest length field offered, in bytes: one more than the 4 allowed.
MaxProbeBytes == 5

LenFields == UNION { [1..n -> CodecBytes] : n \in 1..MaxProbeBytes }

\* Fixed-header bytes: every packet type, flag bits all clear and all set.
HdrBytes == { 16 * ty + fl : ty \in 0..15, fl \in {0, 15} }

\* Stored versions: unset, v3.1, v3.1.1 and one that is neither.
Versions == {0, MQTT_PROTO_V31, MQTT_PROTO_V311, 5}

\* The values of the round trip.
EncValues == {0, 127, 128, 16383, 16384, 2097151, 2097152, 268435455}

CodecInputs ==
  { [tvb |-> <<h, 0>>, ver |-> v] : h \in HdrBytes, v \in Versions }
  \cup { [tvb |-> <<h>> \o l, ver |-> 0] : h \in {48, 130}, l \in LenFields }

InitC ==
  /\ InitStreams([c \in Conns |-> <<>>])
  /\ \E i \in CodecInputs : InitCodec(i.tvb, i.ver)
  /\ InitDecoder(<<>>, NewConv)

\* encode(v) replaces the length field of the candidate.
EncodeLength(v) ==
  /\ v \in 0..MaxRemainingLength
  /\ tvb_in' = <<tvb_in[1]>> \o encode(v)
  /\ enc_in' = v
  /\ probe' = NoProbe
  /\ hdr' = NoHdr
  /\ UNCHANGED <<ver_in, streamVars, decVars>>

\* The reassembler's probe of the candidate.
Probe ==
  /\ probe.st = "none"
  /\ Len(tvb_in) >= MQTT_MIN_LEN
  /\ probe' = get_mqtt_pdu_len(tvb_in, 0)
  /\ UNCHANGED <<tvb_in, ver_in, hdr, enc_in, streamVars, decVars>>

\* The decoder's parse of the fixed header of the candidate.
Header ==
  /\ hdr.st = "none"
  /\ Len(tvb_in) >= MQTT_MIN_LEN
  /\ hdr' = dissect_header(tvb_in, ver_in)
  /\ UNCHANGED <<tvb_in, ver_in, probe, enc_in, streamVars, decVars>>

NextC ==
  \/ \E v \in EncValues : EncodeLength(v)
  \/ Probe
  \/ Header

SpecCodec == InitC /\ [][NextC]_vars

\* ------------------------------------------------------------------------
\* Decoder runs: dissect_mqtt applied to one frame, as tcp_dissect_pdus
\* hands it over: the fixed header byte, the remaining-length field and as
\* many body bytes as the field says.

\* Body bytes: 0 and 1 as lengths, QoS values and return codes, 97 ("a") as
\* text and as a length that is too long.
BodyBytes == {0, 1, 97}

\* The longest body offered, in bytes.
MaxBody == 6

Bodies == UNION { [1..n -> BodyBytes] : n \in 0..MaxBody }

FrameOf(h, body) == <<h>> \o encode(Len(body)) \o body

\* Fixed-header bytes of the decoder runs: reserved 0, CONNACK, PUBLISH with
\* QoS 0, QoS 1, QoS 2 and DUP + QoS 1 + RETAIN, PUBACK, SUBSCRIBE, SUBACK,
\* UNSUBSCRIBE, PINGREQ, reserved 15.
DecoderHdrs == {0, 32, 48, 50, 52, 59, 64, 130, 144, 162, 192, 240}

\* Connect flags: clean session alone, and with will, password, user name,
\* user name + password, all of them.
ConnectFlags == {2, 6, 66, 130, 194, 198}

\* The body of a CONNECT up to its (empty) client id.
ConnectHead(version, flags) ==
  <<0, 4, 77, 81, 84, 84, version, flags, 0, 60, 0, 0>>

\* The CONNECT example: client id "abc", remaining-length byte 0x11.
ExampleConnect ==
  <<16, 17, 0, 4, 77, 81, 84, 84, 4, 2, 0, 60, 0, 3, 97, 98, 99>>

\* Frames longer than MaxBody allows: a CONNECT with will topic, will
\* message, user name and password, a SUBSCRIBE with two entries, and the
\* long PUBLISH with its two-byte length field.
FullConnect ==
  FrameOf(16, ConnectHead(MQTT_PROTO_V311, 198)
              \o <<0, 1, 97, 0, 1, 98, 0, 1, 99, 0, 1, 100>>)

TwoEntrySubscribe == FrameOf(130, <<0, 1, 0, 0, 1, 0, 1, 97, 0>>)

DecoderFrames ==
  { FrameOf(h, b) : h \in DecoderHdrs, b \in Bodies }
  \cup { FrameOf(16, ConnectHead(MQTT_PROTO_V311, fl) \o b) :
           fl \in ConnectFlags, b \in Bodies }
  \cup { ExampleConnect, FullConnect, TwoEntrySubscribe, PublishLongFrame }

DecoderConvs == { NewConv, [runtime_proto_version |-> MQTT_PROTO_V31] }

InitD ==
  /\ InitStreams([c \in Conns |-> <<>>])
  /\ InitCodec(<<>>, 0)
  /\ \E f \in DecoderFrames : \E m \in DecoderConvs : InitDecoder(f, m)

\* dissect_mqtt on the frame, with the locals it ends with.
Decode ==
  /\ result.st = "none"
  /\ Len(frame_in) >= MQTT_MIN_LEN
  /\ LET d == dissect_mqtt(frame_in, mqtt_in)
         s == dissect_cursor(frame_in, mqtt_in)
     IN  result' = [st |-> "done", pkt |-> d.pkt, mqtt |-> d.mqtt,
                    offset |-> s.offset, mqtt_msg_len |-> s.mqtt_msg_len]
  /\ UNCHANGED <<frame_in, mqtt_in, streamVars, codecVars>>

NextD == Decode

SpecDecoder == InitD /\ [][NextD]_vars

\* ------------------------------------------------------------------------
\* What the claims are stated with: the remaining-length field read off the
\* bytes directly, and the bytes of a list of frames laid end to end.

RECURSIVE Flatten(_)
Flatten(fs) == IF fs = <<>> THEN <<>> ELSE Head(fs) \o Flatten(Tail(fs))

\* The field after the fixed-header byte of b has n bytes: n - 1 bytes
\* with bit 7 set, then one with bit 7 clear.
FieldHasBytes(b, n) ==
  /\ Len(b) >= 1 + n
  /\ \A i \in 1..(n - 1) : b[1 + i] >= 128
  /\ b[1 + n] < 128

HasField(b) == \E n \in 1..4 : FieldHasBytes(b, n)

FieldBytes(b) == CHOOSE n \in 1..4 : FieldHasBytes(b, n)

\* sum of (byte_i AND 0x7F) * 128^i over the n bytes of the field.
FieldValue(b, n) ==
  (b[2] % 128)
  + (IF n >= 2 THEN (b[3] % 128) * 128 ELSE 0)
  + (IF n >= 3 THEN (b[4] % 128) * 16384 ELSE 0)
  + (IF n >= 4 THEN (b[5] % 128) * 2097152 ELSE 0)

\* b ends inside the field: every length byte it holds has bit 7 set, and
\* it holds fewer than 5 bytes.
EndsInsideField(b) ==
  /\ Len(b) >= 2
  /\ Len(b) < 5
  /\ \A i \in 2..Len(b) : b[i] >= 128

\* The connection's stream is one complete valid frame.
OneFrame(c) == Len(FramesOf(stream[c])) = 1

\* Everything was fed and every extraction attempt it allows was made.
Drained(c) == pos[c] = Len(stream[c]) /\ pc[c] = "feed" /\ nfeeds[c] >= 1

\* This step is an extraction attempt of connection c.
ExtractStep(c) ==
  /\ pc[c] = "extract"
  /\ (pc'[c] # pc[c] \/ frames'[c] # frames[c])

\* ------------------------------------------------------------------------
\* Claims

\* C1: a complete valid frame fed whole, in 1-byte chunks or in any 2
\* chunks yields exactly one extracted frame, the frame itself, and the
\* packet that decoding the frame delivered whole gives.
C1_ChunkBoundaryInvariant ==
  \A c \in Conns :
    (OneFrame(c) /\ Drained(c) /\ (nfeeds[c] <= 2 \/ unit[c]))
      => /\ frames[c] = <<stream[c]>>
         /\ decoded[c] = <<dissect_mqtt(stream[c], NewConv).pkt>>

\* C2: the frames extracted so far followed by the bytes still buffered are
\* the chunks fed so far: no byte is delivered twice and none is dropped.
C2_NoByteLostOrRepeated ==
  \A c \in Conns :
    Flatten(frames[c]) \o buf[c] = SubSeq(stream[c], 1, pos[c])

\* C3: N valid frames fed as one chunk and extracted until NeedMoreBytes
\* give exactly the N frames, in order.
C3_FrameCountAdditive ==
  \A c \in Conns :
    (FramesOf(stream[c]) # <<>> /\ Drained(c) /\ nfeeds[c] = 1)
      => /\ frames[c] = FramesOf(stream[c])
         /\ last[c] = "NeedMoreBytes"
         /\ buf[c] = <<>>

\* C3's case: three frames arrived in one chunk and were all extracted.
C3_Witness ==
  \E c \in Conns :
    /\ Len(FramesOf(stream[c])) = 3
    /\ Drained(c) /\ nfeeds[c] = 1
    /\ Len(frames[c]) = 3

\* C4: with total = 1 + len_bytes + remaining_length read off the length
\* field, an extraction attempt on at least total buffered bytes returns
\* the first total bytes as the frame and removes exactly those; on fewer
\* it reports NeedMoreBytes and leaves the buffer as it was.
C4_Extract(c) ==
  LET b     == buf[c]
      n     == FieldBytes(b)
      total == 1 + n + FieldValue(b, n)
  IN  (ExtractStep(c) /\ ~stopped[c] /\ HasField(b))
        => IF Len(b) >= total
           THEN /\ frames'[c] = Append(frames[c], SubSeq(b, 1, total))
                /\ buf'[c] = SubSeq(b, total + 1, Len(b))
                /\ last'[c] = "Frame"
           ELSE /\ frames'[c] = frames[c]
                /\ buf'[c] = b
                /\ last'[c] = "NeedMoreBytes"

C4_FrameLength == [][\A c \in Conns : C4_Extract(c)]_vars

\* C4's case: a frame was sliced off the front of the buffer, and the next
\* attempt, on the head of a frame of 268,435,460 bytes, asked for more.
C4_Witness ==
  \E c \in Conns :
    /\ frames[c] = <<PubAckFrame>>
    /\ buf[c] = HugeLenBytes
    /\ last[c] = "NeedMoreBytes"

\* C5: an extraction attempt on fewer than 2 buffered bytes, or on bytes
\* that end inside the remaining-length field, reports NeedMoreBytes, not
\* an error, and keeps the bytes for the feed that completes the frame.
C5_Attempt(c) ==
  (ExtractStep(c) /\ ~stopped[c]
   /\ (Len(buf[c]) < 2 \/ EndsInsideField(buf[c])))
    => /\ last'[c] = "NeedMoreBytes"
       /\ buf'[c] = buf[c]

C5_PartialLengthWaits == [][\A c \in Conns : C5_Attempt(c)]_vars

\* C6's case: the first four length bytes of b all have bit 7 set.
FourthByteContinues(b) ==
  /\ Len(b) >= 5
  /\ \A i \in 2..5 : b[i] >= 128

\* C6: a remaining-length field whose 4th byte still has bit 7 set fails
\* with MalformedLength, in the probe and in the decoder's re-parse; neither
\* consumes a 5th length byte nor returns a value above 268,435,455.
C6_LengthCap ==
  /\ probe.st # "none"
       => /\ probe.len_offset <= 4
          /\ probe.msg_len <= 268435455
          /\ (FourthByteContinues(tvb_in) => probe.st = "MalformedLength")
  /\ hdr.st # "none"
       => /\ hdr.mqtt_len_offset <= 4
          /\ hdr.msg_len <= 268435455
          /\ (FourthByteContinues(tvb_in) => hdr.st = "MalformedLength")

\* C6's case: five length bytes were offered, the first four continuing,
\* and both the probe and the re-parse were applied.
C6_Witness ==
  /\ Len(tvb_in) = 6
  /\ FourthByteContinues(tvb_in)
  /\ probe.st = "MalformedLength"
  /\ hdr.st = "MalformedLength"

\* The bytes the minimal encoding of v takes.
ExpectedByteCount(v) ==
  IF v <= 127 THEN 1
  ELSE IF v <= 16383 THEN 2
  ELSE IF v <= 2097151 THEN 3
  ELSE 4

\* C7: a field of 1 to 4 bytes of which only the last has bit 7 clear
\* decodes to the sum of (byte_i AND 0x7F) * 128^i with the number of bytes
\* consumed, the decoder's cursor ends that many bytes after the fixed
\* header byte, and decode(encode(v)) = (v, n) for the boundary values.
C7_DecodeValue ==
  /\ (probe.st # "none" /\ HasField(tvb_in))
       => LET n == FieldBytes(tvb_in)
          IN  /\ probe.st = "ok"
              /\ probe.msg_len = FieldValue(tvb_in, n)
              /\ probe.len_offset = n
  /\ (hdr.st # "none" /\ HasField(tvb_in))
       => LET n == FieldBytes(tvb_in)
          IN  /\ hdr.st = "ok"
              /\ hdr.msg_len = FieldValue(tvb_in, n)
              /\ hdr.mqtt_len_offset = n
              /\ hdr.offset = 1 + n
  /\ (enc_in # -1 /\ probe.st # "none")
       => /\ probe.st = "ok"
          /\ probe.msg_len = enc_in
          /\ probe.len_offset = ExpectedByteCount(enc_in)
  /\ (enc_in # -1 /\ hdr.st # "none")
       => /\ hdr.st = "ok"
          /\ hdr.msg_len = enc_in
          /\ hdr.mqtt_len_offset = ExpectedByteCount(enc_in)

\* C7's case: the largest value was encoded and decoded by both.
C7_Witness ==
  /\ enc_in = 268435455
  /\ Len(tvb_in) = 5
  /\ probe.st = "ok" /\ probe.len_offset = 4
  /\ hdr.st = "ok" /\ hdr.offset = 5

\* The layout table of the claim.
ExpectedLayout(ty, ver) ==
  IF ty = 3 THEN "dup_qos_retain"
  ELSE IF <<ty, ver>> \in {<<6, 3>>, <<8, 3>>, <<10, 3>>} THEN "dup_reserved3"
  ELSE "reserved4"

\* C8: the flag layout depends on the packet type and the stored version
\* only: PUBLISH has DUP, QoS, RETAIN; PUBREL, SUBSCRIBE and UNSUBSCRIBE have
\* DUP + 3 reserved bits exactly under v3.1; everything else, and every
\* type while the version is unset, has 4 reserved bits.
C8_FlagLayout ==
  hdr.st # "none" => hdr.layout = ExpectedLayout(tvb_in[1] \div 16, ver_in)

\* C8's case: an UNSUBSCRIBE header was parsed under v3.1.
C8_Witness ==
  /\ hdr.st = "ok"
  /\ tvb_in[1] \div 16 = MQTT_UNSUBSCRIBE
  /\ ver_in = MQTT_PROTO_V31
  /\ hdr.layout = "dup_reserved3"

\* The version byte a decoded CONNECT carries.
ProtoVer(pkt) ==
  LET f == SelectSeq(pkt.fields, LAMBDA x : x.hf = "proto_ver")
  IN  IF f = <<>> THEN 0 ELSE f[1].bytes[1]

\* The version the CONNECTs among the first n packets of d left behind:
\* that of the last of them, 0 when there is none.
RECURSIVE VersionAfter(_, _)
VersionAfter(d, n) ==
  IF n = 0 THEN 0
  ELSE IF d[n].mqtt_msg_type = MQTT_CONNECT THEN ProtoVer(d[n])
  ELSE VersionAfter(d, n - 1)

\* C9: the version is per connection: a SUBSCRIBE after a CONNECT with
\* version 3 on its own connection has DUP + 3 reserved bits, a SUBSCRIBE on
\* a connection that has seen no CONNECT has 4 reserved bits, whatever the
\* other connection has decoded in between.
C9_VersionPerConnection ==
  \A c \in Conns : \A i \in 1..Len(decoded[c]) :
    decoded[c][i].mqtt_msg_type = MQTT_SUBSCRIBE
      => /\ VersionAfter(decoded[c], i - 1) = 3
              => decoded[c][i].layout = "dup_reserved3"
         /\ (\A j \in 1..(i - 1) : decoded[c][j].mqtt_msg_type # MQTT_CONNECT)
              => decoded[c][i].layout = "reserved4"

\* C9's case: A decoded CONNECT(3) and then a SUBSCRIBE with the v3.1
\* layout, and B, with no CONNECT, decoded a SUBSCRIBE with the plain one.
C9_Witness ==
  /\ Len(decoded["A"]) = 2
  /\ decoded["A"][1].mqtt_msg_type = MQTT_CONNECT
  /\ decoded["A"][2].layout = "dup_reserved3"
  /\ conv["A"].runtime_proto_version = 3
  /\ Len(decoded["B"]) = 1
  /\ decoded["B"][1].mqtt_msg_type = MQTT_SUBSCRIBE
  /\ decoded["B"][1].layout = "reserved4"
  /\ conv["B"].runtime_proto_version = 0

\* This step extracted and decoded a CONNECT frame of connection c.
ConnectStep(c) ==
  /\ ExtractStep(c)
  /\ frames'[c] # frames[c]
  /\ frames'[c][Len(frames'[c])][1] \div 16 = MQTT_CONNECT

\* C10: decoding a frame that is no CONNECT leaves the stored version as it
\* was, whether the decode succeeds or fails; only a CONNECT decode writes.
C10_OnlyConnectWrites ==
  [][\A c \in Conns : ~ConnectStep(c) => conv'[c] = conv[c]]_vars

\* C10's case: with version 3 stored, a SUBSCRIBE failed to decode and a
\* PUBACK decoded, and the version is still 3.
C10_Witness ==
  \E c \in Conns :
    /\ Len(decoded[c]) = 3
    /\ decoded[c][2].mqtt_msg_type = MQTT_SUBSCRIBE
    /\ decoded[c][2].err = "TruncatedFrame"
    /\ decoded[c][3].err = "none"
    /\ conv[c].runtime_proto_version = 3

\* The CONNECT decode read its version byte.
HasVersionByte(pkt) ==
  \E i \in 1..Len(pkt.fields) : pkt.fields[i].hf = "proto_ver"

\* The version byte of the last of the first n packets of d that is a
\* CONNECT whose version byte was read; 0 (unset) when there is none.
RECURSIVE LastConnectVersion(_, _)
LastConnectVersion(d, n) ==
  IF n = 0 THEN 0
  ELSE IF d[n].mqtt_msg_type = MQTT_CONNECT /\ HasVersionByte(d[n])
       THEN ProtoVer(d[n])
       ELSE LastConnectVersion(d, n - 1)

\* C11: after any sequence of frames decoded on a connection the stored
\* version is unset if no CONNECT was decoded and otherwise the version byte
\* of the most recently decoded CONNECT (a later CONNECT overwrites an
\* earlier one), and the flag layout of every frame follows the version
\* stored when it is decoded.
C11_LastConnectWins ==
  \A c \in Conns :
    /\ conv[c].runtime_proto_version
         = LastConnectVersion(decoded[c], Len(decoded[c]))
    /\ \A i \in 1..Len(decoded[c]) :
         decoded[c][i].layout
           = ExpectedLayout(decoded[c][i].mqtt_msg_type,
                            LastConnectVersion(decoded[c], i - 1))

\* C11's case: CONNECT(3), then CONNECT(4), then a SUBSCRIBE, which has the
\* plain reserved field again.
C11_Witness ==
  \E c \in Conns :
    /\ Len(decoded[c]) = 3
    /\ decoded[c][1].mqtt_msg_type = MQTT_CONNECT /\ ProtoVer(decoded[c][1]) = 3
    /\ decoded[c][2].mqtt_msg_type = MQTT_CONNECT /\ ProtoVer(decoded[c][2]) = 4
    /\ decoded[c][3].mqtt_msg_type = MQTT_SUBSCRIBE
    /\ decoded[c][3].layout = "reserved4"
    /\ conv[c].runtime_proto_version = 4

\* This step extracted a frame of connection c and its decode threw.
DecodeErrorStep(c) ==
  /\ ExtractStep(c)
  /\ frames'[c] # frames[c]
  /\ decoded'[c][Len(decoded'[c])].err # "none"

\* What C12 says of such a step: the frame is the head of the buffer and is
\* taken off it, the rest of the buffer stays, the direction is not stopped
\* and the next extraction attempt follows without a feed; the stored
\* version is the one before the frame, or, for a CONNECT that got as far as
\* its version byte, that byte.
C12_Step(c) ==
  DecodeErrorStep(c) =>
    LET f == frames'[c][Len(frames'[c])]
        p == decoded'[c][Len(decoded'[c])]
    IN  /\ frames'[c] = Append(frames[c], f)
        /\ f = SubSeq(buf[c], 1, Len(f))
        /\ buf'[c] = SubSeq(buf[c], Len(f) + 1, Len(buf[c]))
        /\ ~stopped'[c]
        /\ pc'[c] = "extract"
        /\ conv'[c].runtime_proto_version =
             IF p.mqtt_msg_type = MQTT_CONNECT /\ HasVersionByte(p)
             THEN ProtoVer(p)
             ELSE conv[c].runtime_proto_version

\* The streams with a frame whose decode throws between two good frames.
ErrorStreams ==
  { ConnectFrame(MQTT_PROTO_V31) \o BadSubscribeFrame \o PubAckFrame,
    ConnectFrame(MQTT_PROTO_V31) \o TruncConnectFrame(MQTT_PROTO_V311)
      \o SubscribeFrame,
    ConnectFrame(MQTT_PROTO_V31) \o HeadlessConnectFrame \o SubscribeFrame }

\* The frame after the failing one was extracted and decoded, the stream
\* having arrived in one chunk.
C12_NextFrame ==
  \A c \in Conns :
    (stream[c] \in ErrorStreams /\ Drained(c) /\ nfeeds[c] = 1)
      => /\ Len(frames[c]) = 3
         /\ Flatten(frames[c]) = stream[c]
         /\ decoded[c][2].err # "none"
         /\ decoded[c][3].err = "none"
         /\ decoded[c][3] = dissect_mqtt(frames[c][3], conv[c]).pkt
         /\ buf[c] = <<>>

\* C12: a decoder error on one frame is packet-local: the frame's bytes are
\* consumed and not offered again, the connection's state is kept, and the
\* next frame of the stream, also one of the same chunk, is still extracted
\* and decoded.
C12_PacketLocalError ==
  /\ [][\A c \in Conns : C12_Step(c)]_vars
  /\ [](C12_NextFrame)

\* C12's case: CONNECT(3), a SUBSCRIBE whose decode threw and a PUBACK came
\* in one chunk; the PUBACK was decoded and version 3 is still stored.
C12_Witness ==
  \E c \in Conns :
    /\ nfeeds[c] = 1
    /\ frames[c] = <<ConnectFrame(MQTT_PROTO_V31), BadSubscribeFrame, PubAckFrame>>
    /\ decoded[c][2].err = "TruncatedFrame"
    /\ decoded[c][3].err = "none"
    /\ decoded[c][3].mqtt_msg_type = MQTT_PUBACK
    /\ conv[c].runtime_proto_version = 3
    /\ buf[c] = <<>>

\* ------------------------------------------------------------------------
\* Claims on the decoder runs

\* dissect_mqtt was applied to a frame of packet type ty.
Decoded(ty) == result.st = "done" /\ frame_in[1] \div 16 = ty

\* The remaining length of the frame and its body, read off its bytes.
RemLen(f) == FieldValue(f, FieldBytes(f))

BodyOf(f) == SubSeq(f, 1 + FieldBytes(f) + 1, Len(f))

\* The items of the decoded packet with the given name, in order.
FieldsOf(pkt, hf) == SelectSeq(pkt.fields, LAMBDA x : x.hf = hf)

\* C13 as stated: a SUBACK whose remaining length is odd, e.g. 3, surfaces
\* an error instead of decoding the bytes after the MessageId as return
\* codes.
C13_OddSubackUnderrun ==
  (Decoded(MQTT_SUBACK) /\ RemLen(frame_in) >= 3 /\ RemLen(frame_in) % 2 = 1)
    => result.pkt.err # "none"

\* C13, amended: a SUBACK with remaining length n >= 2, odd or even, decodes
\* without error to the MessageId and n - 2 return codes of one byte each,
\* and the loop ends with the counter at zero; with n < 2 the MessageId is
\* cut short and the decode throws.
C13_SubackReturnCodes ==
  Decoded(MQTT_SUBACK) =>
    LET n    == RemLen(frame_in)
        body == BodyOf(frame_in)
        rc   == FieldsOf(result.pkt, "suback_qos")
    IN  IF n >= 2
        THEN /\ result.pkt.err = "none"
             /\ FieldsOf(result.pkt, "msgid")
                  = <<[hf |-> "msgid", bytes |-> SubSeq(body, 1, 2)]>>
             /\ Len(rc) = n - 2
             /\ \A i \in 1..(n - 2) : rc[i].bytes = <<body[2 + i]>>
             /\ result.mqtt_msg_len = 0
        ELSE /\ result.pkt.err = "TruncatedFrame"
             /\ rc = <<>>

\* C13's case: a SUBACK with remaining length 3 was decoded: one return
\* code and no error.
C13_Witness ==
  /\ Decoded(MQTT_SUBACK)
  /\ RemLen(frame_in) = 3
  /\ result.pkt.err = "none"
  /\ Len(FieldsOf(result.pkt, "suback_qos")) = 1

\* b is a whole number of entries: each a 16-bit length, a topic filter of
\* that length and q further bytes (the QoS byte of SUBSCRIBE).
RECURSIVE WholeEntries(_, _)
WholeEntries(b, q) ==
  IF b = <<>> THEN TRUE
  ELSE /\ Len(b) >= 2
       /\ Len(b) >= 2 + (b[1] * 256 + b[2]) + q
       /\ WholeEntries(SubSeq(b, 2 + (b[1] * 256 + b[2]) + q + 1, Len(b)), q)

\* How many entries b holds, b being a whole number of them.
RECURSIVE NumEntries(_, _)
NumEntries(b, q) ==
  IF b = <<>> THEN 0
  ELSE 1 + NumEntries(SubSeq(b, 2 + (b[1] * 256 + b[2]) + q + 1, Len(b)), q)

\* What C14 says of a decoded frame of type ty whose entries carry q bytes
\* after the topic filter.
C14_Loop(ty, q) ==
  Decoded(ty) =>
    LET body == BodyOf(frame_in)
        rest == SubSeq(body, 3, Len(body))
    IN  /\ (Len(body) >= 2 /\ WholeEntries(rest, q))
             => /\ result.pkt.err = "none"
                /\ Len(FieldsOf(result.pkt, "topic")) = NumEntries(rest, q)
                /\ Len(FieldsOf(result.pkt, "sub_qos")) = q * NumEntries(rest, q)
        /\ (Len(body) >= 2 /\ ~WholeEntries(rest, q))
             => result.pkt.err = "TruncatedFrame"
        /\ result.pkt.err = "none"
             => /\ result.mqtt_msg_len = 0
                /\ result.offset = Len(frame_in)

\* C14: the SUBSCRIBE and UNSUBSCRIBE loops end, and they end without error
\* only with the counter at exactly zero between two entries: a frame whose
\* bytes run out inside the 2-byte length, inside the topic filter or before
\* the QoS byte of SUBSCRIBE gives an error, never a decode with a partial
\* entry.
C14_EntryLoops ==
  /\ C14_Loop(MQTT_SUBSCRIBE, 1)
  /\ C14_Loop(MQTT_UNSUBSCRIBE, 0)

\* C14's case: a SUBSCRIBE whose bytes end after the topic filter "a", where
\* the QoS byte should be, was decoded and threw.
C14_Witness ==
  /\ Decoded(MQTT_SUBSCRIBE)
  /\ BodyOf(frame_in) = <<0, 1, 0, 1, 97>>
  /\ result.pkt.err = "TruncatedFrame"
  /\ Len(FieldsOf(result.pkt, "topic")) = 1

\* The QoS bits of the fixed header byte.
QosOf(f) == (f[1] \div 2) % 4

\* The bytes a PUBLISH of this QoS spends on its MessageId.
MsgIdBytes(f) == IF QosOf(f) > 0 THEN 2 ELSE 0

\* The topic length a PUBLISH body declares.
TopicLenOf(body) == body[1] * 256 + body[2]

\* A well-formed PUBLISH: the body holds the topic length, the topic and,
\* with QoS > 0, the MessageId.
WellFormedPublish(f) ==
  /\ Len(BodyOf(f)) >= 2
  /\ Len(BodyOf(f)) >= 2 + TopicLenOf(BodyOf(f)) + MsgIdBytes(f)

\* C15: a well-formed PUBLISH decodes to its topic, a MessageId exactly when
\* the QoS bits are not zero, and a message that is the rest of the frame:
\* remaining_length - 2 - topic_len bytes with QoS 0, two fewer with QoS > 0.
C15_PublishLayout ==
  (Decoded(MQTT_PUBLISH) /\ WellFormedPublish(frame_in)) =>
    LET body == BodyOf(frame_in)
        tl   == TopicLenOf(body)
        m    == MsgIdBytes(frame_in)
        msg  == FieldsOf(result.pkt, "pubmsg")
    IN  /\ result.pkt.err = "none"
        /\ FieldsOf(result.pkt, "topic")
             = <<[hf |-> "topic", bytes |-> SubSeq(body, 3, 2 + tl)]>>
        /\ FieldsOf(result.pkt, "msgid")
             = IF QosOf(frame_in) > 0
               THEN <<[hf |-> "msgid", bytes |-> SubSeq(body, 3 + tl, 4 + tl)]>>
               ELSE <<>>
        /\ Len(msg) = 1
        /\ msg[1].bytes = SubSeq(body, 2 + tl + m + 1, Len(body))
        /\ Len(msg[1].bytes) = RemLen(frame_in) - 2 - tl - m

\* C15's case: PUBLISH 0x32 (QoS 1), topic "a", MessageId 1, one message
\* byte.
C15_Witness ==
  /\ Decoded(MQTT_PUBLISH)
  /\ frame_in = <<50, 6, 0, 1, 97, 0, 1, 97>>
  /\ result.pkt.err = "none"
  /\ Len(FieldsOf(result.pkt, "msgid")) = 1
  /\ FieldsOf(result.pkt, "pubmsg") = <<[hf |-> "pubmsg", bytes |-> <<97>>]>>

\* The connect flags byte of a CONNECT frame and the bytes after its client
\* id, read off the frame: protocol name, version, flags, keep-alive and
\* client id are skipped by their declared lengths.
ConnFlagsOf(f) ==
  LET b == BodyOf(f) IN b[2 + (b[1] * 256 + b[2]) + 2]

ConnTail(f) ==
  LET b  == BodyOf(f)
      p  == 2 + (b[1] * 256 + b[2]) + 4
  IN  SubSeq(b, p + 2 + (b[p + 1] * 256 + b[p + 2]) + 1, Len(b))

WillFlagOf(f) == (ConnFlagsOf(f) \div 4) % 2 = 1

PasswdFlagOf(f) == (ConnFlagsOf(f) \div 64) % 2 = 1

UserFlagOf(f) == (ConnFlagsOf(f) \div 128) % 2 = 1

\* t starts with a 16-bit length and holds the string of that length.
Str16Fits(t) == Len(t) >= 2 /\ Len(t) >= 2 + (t[1] * 256 + t[2])

\* t after that string.
AfterStr16(t) == SubSeq(t, 2 + (t[1] * 256 + t[2]) + 1, Len(t))

WillFits(f) ==
  WillFlagOf(f)
    => (Str16Fits(ConnTail(f)) /\ Str16Fits(AfterStr16(ConnTail(f))))

TailAfterWill(f) ==
  IF WillFlagOf(f) THEN AfterStr16(AfterStr16(ConnTail(f))) ELSE ConnTail(f)

\* The user name is read: its flag is set and bytes remain at that point.
UserRead(f) == UserFlagOf(f) /\ TailAfterWill(f) # <<>>

UserFits(f) == UserRead(f) => Str16Fits(TailAfterWill(f))

TailAfterUser(f) ==
  IF UserRead(f) THEN AfterStr16(TailAfterWill(f)) ELSE TailAfterWill(f)

\* The password is read: its flag is set and bytes remain at that point.
PasswdRead(f) == PasswdFlagOf(f) /\ TailAfterUser(f) # <<>>

PasswdFits(f) == PasswdRead(f) => Str16Fits(TailAfterUser(f))

\* Every optional field that is read lies within the frame.
OptionalsFit(f) == WillFits(f) /\ UserFits(f) /\ PasswdFits(f)

HasItem(pkt, hf) == FieldsOf(pkt, hf) # <<>>

\* What the CONNECT example decodes to.
ExampleFields ==
  << [hf |-> "proto_len", bytes |-> <<0, 4>>],
     [hf |-> "proto_name", bytes |-> <<77, 81, 84, 84>>],
     [hf |-> "proto_ver", bytes |-> <<4>>],
     [hf |-> "conflags", bytes |-> <<2>>],
     [hf |-> "keep_alive", bytes |-> <<0, 60>>],
     [hf |-> "client_id_len", bytes |-> <<0, 3>>],
     [hf |-> "client_id", bytes |-> <<97, 98, 99>>] >>

\* C16: in a CONNECT decode the will topic and will message are decoded
\* exactly when the WillFlag is set, the user name exactly when its flag is
\* set and bytes remain at that point, the password likewise; a flag set
\* with no bytes left gives no error and no field; the decode fails exactly
\* when a field that is read does not fit; the example gives version 4,
\* flags 0x02, keep-alive 60, client id "abc" and no optional field.
C16_ConnectOptionals ==
  Decoded(MQTT_CONNECT) =>
    /\ (result.pkt.err = "none") <=> OptionalsFit(frame_in)
    /\ result.pkt.err = "none"
         => /\ HasItem(result.pkt, "will_topic") <=> WillFlagOf(frame_in)
            /\ HasItem(result.pkt, "will_msg") <=> WillFlagOf(frame_in)
            /\ HasItem(result.pkt, "username") <=> UserRead(frame_in)
            /\ HasItem(result.pkt, "passwd") <=> PasswdRead(frame_in)
    /\ HasItem(result.pkt, "will_topic") => WillFlagOf(frame_in)
    /\ HasItem(result.pkt, "will_msg") => WillFlagOf(frame_in)
    /\ HasItem(result.pkt, "username") => UserFlagOf(frame_in)
    /\ HasItem(result.pkt, "passwd") => PasswdFlagOf(frame_in)
    /\ frame_in = ExampleConnect
         => /\ result.pkt.err = "none"
            /\ result.pkt.fields = ExampleFields
            /\ result.mqtt.runtime_proto_version = 4

\* C16's case: a CONNECT with the UserName and Password flags set and no
\* byte after the client id was decoded: no error, neither field.
C16_Witness ==
  /\ Decoded(MQTT_CONNECT)
  /\ frame_in = FrameOf(16, ConnectHead(MQTT_PROTO_V311, 194))
  /\ result.pkt.err = "none"
  /\ ~HasItem(result.pkt, "username")
  /\ ~HasItem(result.pkt, "passwd")

\* ------------------------------------------------------------------------
\* Further claims on the streams

\* This step extracted a frame of connection c with a reserved packet type.
ReservedStep(c) ==
  /\ ExtractStep(c)
  /\ frames'[c] # frames[c]
  /\ frames'[c][Len(frames'[c])][1] \div 16 \in {0, 15}

\* What C17 says of such a step: no error, nothing parsed, the whole frame
\* (fixed header, length field, remaining_length bytes) taken off the buffer,
\* the stored version untouched, and the next attempt follows.
C17_Step(c) ==
  ReservedStep(c) =>
    LET f == frames'[c][Len(frames'[c])]
        p == decoded'[c][Len(decoded'[c])]
    IN  /\ p.err = "none"
        /\ p.fields = <<>>
        /\ Len(f) = 1 + FieldBytes(f) + RemLen(f)
        /\ f = SubSeq(buf[c], 1, Len(f))
        /\ buf'[c] = SubSeq(buf[c], Len(f) + 1, Len(buf[c]))
        /\ conv'[c] = conv[c]
        /\ ~stopped'[c]
        /\ pc'[c] = "extract"

\* The stream with the two reserved frames between a CONNECT and a
\* SUBSCRIBE.
ReservedStream ==
  ConnectFrame(MQTT_PROTO_V31) \o Reserved0Frame \o Reserved15Frame
    \o SubscribeFrame

\* However that stream was chunked, the SUBSCRIBE after the reserved frames
\* was extracted and decoded as it is under the CONNECT's version.
C17_Following ==
  \A c \in Conns :
    (stream[c] = ReservedStream /\ Drained(c))
      => /\ frames[c] = <<ConnectFrame(MQTT_PROTO_V31), Reserved0Frame,
                          Reserved15Frame, SubscribeFrame>>
         /\ decoded[c][4]
              = dissect_mqtt(SubscribeFrame,
                             [runtime_proto_version |-> MQTT_PROTO_V31]).pkt
         /\ decoded[c][4].err = "none"
         /\ conv[c].runtime_proto_version = MQTT_PROTO_V31

\* C17: a frame with a reserved packet type (0 or 15) is no error: its body
\* is not parsed, it decodes to an empty result, the whole frame is
\* consumed, the connection's state is unchanged and the following frame is
\* processed normally.
C17_ReservedTypes ==
  /\ [][\A c \in Conns : C17_Step(c)]_vars
  /\ [](C17_Following)

\* C17's case: the frames of type 0 (with a 3-byte body) and 15 were
\* extracted after CONNECT(3), and the SUBSCRIBE after them was decoded.
C17_Witness ==
  \E c \in Conns :
    /\ Len(decoded[c]) = 4
    /\ frames[c][2] = Reserved0Frame
    /\ frames[c][3] = Reserved15Frame
    /\ decoded[c][2].fields = <<>> /\ decoded[c][2].err = "none"
    /\ decoded[c][3].fields = <<>> /\ decoded[c][3].err = "none"
    /\ decoded[c][4].mqtt_msg_type = MQTT_SUBSCRIBE
    /\ decoded[c][4].layout = "dup_reserved3"

\* ------------------------------------------------------------------------
\* Further claims on the decoder runs

\* The bytes of the items of a decoded packet, laid end to end.
RECURSIVE ItemBytes(_)
ItemBytes(fs) ==
  IF fs = <<>> THEN <<>> ELSE Head(fs).bytes \o ItemBytes(Tail(fs))

IsPrefix(a, b) == Len(a) <= Len(b) /\ a = SubSeq(b, 1, Len(a))

\* A length declared in the frame reaches past the frame's end: the topic
\* length of a PUBLISH, the topic-filter length of the first entry of a
\* SUBSCRIBE or UNSUBSCRIBE, or an optional string of a CONNECT.
DeclaredPastEnd(f) ==
  LET ty   == f[1] \div 16
      body == BodyOf(f)
  IN  \/ /\ ty = MQTT_PUBLISH
         /\ Len(body) >= 2
         /\ TopicLenOf(body) > Len(body) - 2
      \/ /\ ty \in {MQTT_SUBSCRIBE, MQTT_UNSUBSCRIBE}
         /\ Len(body) >= 4
         /\ body[3] * 256 + body[4] > Len(body) - 4
      \/ /\ ty = MQTT_CONNECT
         /\ ~OptionalsFit(f)

\* C18: a sub-field whose declared length would take the cursor past the
\* frame's end makes the decode fail with a structural error; the bytes the
\* decode has read are consecutive bytes of the frame's body, none at or
\* beyond its end, and the cursor never passes the end; a decode that
\* succeeds ends with a counter that is not negative.
C18_NoReadPastEnd ==
  result.st = "done" =>
    /\ DeclaredPastEnd(frame_in) => result.pkt.err = "TruncatedFrame"
    /\ IsPrefix(ItemBytes(result.pkt.fields), BodyOf(frame_in))
    /\ result.offset <= Len(frame_in)
    /\ result.pkt.err = "none" => result.mqtt_msg_len >= 0

\* C18's case: a PUBLISH whose topic length says 97 with 2 bytes left was
\* decoded and threw.
C18_Witness ==
  /\ result.st = "done"
  /\ frame_in = <<48, 4, 0, 97, 1, 1>>
  /\ result.pkt.err = "TruncatedFrame"
  /\ FieldsOf(result.pkt, "topic") = <<>>

\* ------------------------------------------------------------------------
\* Further claims on the streams

\* What C19 says of any step of connection c taken while the buffer starts
\* with a length field whose 4th byte continues, or after the direction was
\* stopped: no frame and no packet is added, the buffered bytes stay at the
\* head of the buffer (so the head stays malformed), a stopped direction
\* stays stopped, and an extraction attempt reports the failure.
C19_Step(c) ==
  (FourthByteContinues(buf[c]) \/ stopped[c]) =>
    /\ frames'[c] = frames[c]
    /\ decoded'[c] = decoded[c]
    /\ IsPrefix(buf[c], buf'[c])
    /\ stopped[c] => stopped'[c]
    /\ ExtractStep(c) => /\ last'[c] \in {"MalformedLength", "Stopped"}
                         /\ stopped'[c]

OverLong(b) ==
  /\ HasField(b)
  /\ FieldBytes(b) > ExpectedByteCount(FieldValue(b, FieldBytes(b)))

\* C21: the length decode does not accept over-long forms: a field that uses
\* more bytes than the minimal encoding of its value (0x80 0x00 for 0) is
\* not decoded as a valid length, neither by the probe nor by the decoder's
\* re-parse.
C21_NoOverLongForms ==
  /\ (probe.st # "none" /\ OverLong(tvb_in)) => probe.st # "ok"
  /\ (hdr.st # "none" /\ OverLong(tvb_in)) => hdr.st # "ok"

\* ------------------------------------------------------------------------
\* Further claims on the streams

\* The i-th packet of d is a CONNECT that read its version byte and threw
\* afterwards.
FailedConnectWithVersion(d, i) ==
  /\ d[i].mqtt_msg_type = MQTT_CONNECT
  /\ HasVersionByte(d[i])
  /\ d[i].err # "none"

\* C22: a CONNECT decode stores the version as soon as the version byte is
\* read, before flags, keep-alive, client id and the optional fields: a
\* CONNECT that throws after its version byte has changed the stored
\* version, and that value gives the flag layout of the next frame.
C22_VersionWrittenEarly ==
  \A c \in Conns : \A i \in 1..Len(decoded[c]) :
    FailedConnectWithVersion(decoded[c], i) =>
      IF i = Len(decoded[c])
      THEN conv[c].runtime_proto_version = ProtoVer(decoded[c][i])
      ELSE decoded[c][i + 1].layout
             = ExpectedLayout(decoded[c][i + 1].mqtt_msg_type,
                              ProtoVer(decoded[c][i]))

\* C22's case: with version 3 stored, a CONNECT that ends right after its
\* version byte 4 threw; the SUBSCRIBE after it has the plain reserved
\* field and 4 is stored.
C22_Witness ==
  \E c \in Conns :
    /\ Len(decoded[c]) = 3
    /\ ProtoVer(decoded[c][1]) = 3 /\ decoded[c][1].err = "none"
    /\ frames[c][2] = VersionOnlyConnectFrame(MQTT_PROTO_V311)
    /\ decoded[c][2].err = "TruncatedFrame"
    /\ ~HasItem(decoded[c][2], "conflags")
    /\ decoded[c][3].mqtt_msg_type = MQTT_SUBSCRIBE
    /\ decoded[c][3].layout = "reserved4"
    /\ conv[c].runtime_proto_version = 4

\* The body bytes the fixed-shape packet types have fields for.
FixedShapeLen(ty) ==
  IF ty \in {MQTT_CONNACK, MQTT_PUBACK, MQTT_PUBREC, MQTT_PUBREL,
             MQTT_PUBCOMP, MQTT_UNSUBACK}
  THEN 2 ELSE 0

FixedShapeTypes ==
  {MQTT_CONNACK, MQTT_PUBACK, MQTT_PUBREC, MQTT_PUBREL, MQTT_PUBCOMP,
   MQTT_UNSUBACK, MQTT_PINGREQ, MQTT_PINGRESP, MQTT_DISCONNECT}

\* The items a frame of a fixed-shape type decodes to.
FixedShapeFields(f) ==
  LET ty == f[1] \div 16
      b  == BodyOf(f)
  IN  IF ty = MQTT_CONNACK
      THEN << [hf |-> "conack_flags", bytes |-> <<b[1]>>],
              [hf |-> "conack_code", bytes |-> <<b[2]>>] >>
      ELSE IF FixedShapeLen(ty) = 2
           THEN << [hf |-> "msgid", bytes |-> <<b[1], b[2]>>] >>
           ELSE <<>>

\* This step extracted a frame of connection c of a fixed-shape type whose
\* remaining length is larger than its fields.
PaddedStep(c) ==
  /\ ExtractStep(c)
  /\ frames'[c] # frames[c]
  /\ LET f == frames'[c][Len(frames'[c])]
     IN  /\ f[1] \div 16 \in FixedShapeTypes
         /\ RemLen(f) > FixedShapeLen(f[1] \div 16)

\* What C23 says of such a step: no error, the fields of the type and
\* nothing of the extra bytes, and the whole frame, extra bytes included,
\* taken off the buffer.
C23_Step(c) ==
  PaddedStep(c) =>
    LET f == frames'[c][Len(frames'[c])]
        p == decoded'[c][Len(decoded'[c])]
    IN  /\ p.err = "none"
        /\ p.fields = FixedShapeFields(f)
        /\ Len(f) = 1 + FieldBytes(f) + RemLen(f)
        /\ f = SubSeq(buf[c], 1, Len(f))
        /\ buf'[c] = SubSeq(buf[c], Len(f) + 1, Len(buf[c]))
        /\ conv'[c] = conv[c]
        /\ pc'[c] = "extract"

\* However the stream of padded frames was chunked, all of them and the
\* SUBSCRIBE after them were extracted, byte for byte.
C23_AllConsumed ==
  \A c \in Conns :
    (stream[c] = PaddedStream /\ Drained(c))
      => /\ frames[c] = PaddedFrames \o <<SubscribeFrame>>
         /\ \A i \in 1..Len(decoded[c]) : decoded[c][i].err = "none"
         /\ buf[c] = <<>>

\* C23: for the fixed-shape packet types the decoder does not compare the
\* declared remaining length with the bytes it reads: a CONNACK, PUBACK,
\* PUBREC, PUBREL, PUBCOMP or UNSUBACK with remaining length > 2, or a
\* PINGREQ, PINGRESP or DISCONNECT with remaining length > 0, decodes
\* without error, the extra bytes are ignored and the whole frame is
\* consumed.
C23_ExtraBytesIgnored ==
  /\ [][\A c \in Conns : C23_Step(c)]_vars
  /\ [](C23_AllConsumed)

\* C23's case: the nine padded frames and the SUBSCRIBE were extracted; the
\* CONNACK shows its two bytes, the PINGREQ with two body bytes nothing.
C23_Witness ==
  \E c \in Conns :
    /\ Len(frames[c]) = 10
    /\ frames[c][1] = <<32, 3, 0, 0, 9>>
    /\ Len(decoded[c][1].fields) = 2 /\ decoded[c][1].err = "none"
    /\ frames[c][7] = <<192, 2, 9, 9>>
    /\ decoded[c][7].fields = <<>> /\ decoded[c][7].err = "none"
    /\ decoded[c][10].mqtt_msg_type = MQTT_SUBSCRIBE
    /\ buf[c] = <<>>

\* ------------------------------------------------------------------------
\* Further claims on the decoder runs

\* The cursor with which dissect_mqtt enters its switch.
StartCursor(tvb, mqtt) ==
  LET h == dissect_header(tvb, mqtt.runtime_proto_version)
  IN  Cursor(h.offset, h.mqtt_msg_len, mqtt.runtime_proto_version)

\* The counter is the number of bytes of the frame not yet consumed (of no
\* interest once an exception has ended the decode).
InSync(tvb, s) == s.err # "none" \/ s.mqtt_msg_len = Len(tvb) - s.offset

\* The cursor at the first test of the loops: after the MessageId and
\* mqtt_msg_len -= 2.
AfterMsgId(tvb, s) == Dec(Adv(AddItem(s, tvb, "msgid", 2), 2), 2)

\* One pass of the loop of packet type ty.
LoopPass(ty, tvb, s) ==
  CASE ty = MQTT_SUBSCRIBE   -> subscribe_entry(tvb, s)
    [] ty = MQTT_UNSUBSCRIBE -> unsubscribe_entry(tvb, s)
    [] OTHER -> Dec(Adv(AddItem(s, tvb, "suback_qos", 1), 1), 1)

\* The counter is in step at this test of the loop condition and at every
\* later one.
RECURSIVE SyncAtTests(_, _, _)
SyncAtTests(ty, tvb, s) ==
  /\ InSync(tvb, s)
  /\ (s.err = "none" /\ s.mqtt_msg_len > 0)
       => SyncAtTests(ty, tvb, LoopPass(ty, tvb, s))

\* C24: in the PUBLISH, SUBSCRIBE, UNSUBSCRIBE and SUBACK branches the
\* counter equals the frame length minus the cursor offset whenever it is
\* tested (the loop conditions) or used as a length (the PUBLISH message),
\* the decoder's re-parse of the length field giving the value and byte
\* count with which the probe sized the frame.
C24_CounterIsBytesLeft ==
  (result.st = "done"
   /\ frame_in[1] \div 16 \in {MQTT_PUBLISH, MQTT_SUBSCRIBE, MQTT_UNSUBSCRIBE,
                               MQTT_SUBACK}
   /\ get_mqtt_pdu_len(frame_in, 0).plen = Len(frame_in))
    => LET ty == frame_in[1] \div 16
           r  == get_mqtt_pdu_len(frame_in, 0)
           h  == dissect_header(frame_in, mqtt_in.runtime_proto_version)
           s0 == StartCursor(frame_in, mqtt_in)
       IN  /\ h.msg_len = r.msg_len
           /\ h.mqtt_len_offset = r.len_offset
           /\ InSync(frame_in, s0)
           /\ IF ty = MQTT_PUBLISH
              THEN InSync(frame_in,
                          publish_msgid(frame_in, TopicEntry(s0, frame_in),
                                        frame_in[1]))
              ELSE SyncAtTests(ty, frame_in, AfterMsgId(frame_in, s0))
           /\ result.pkt.err = "none"
                => result.mqtt_msg_len = Len(frame_in) - result.offset

\* C24's case: the long PUBLISH, with a two-byte length field, was decoded;
\* at the message the counter is the size of the message.
C24_Witness ==
  /\ result.st = "done"
  /\ frame_in = PublishLongFrame
  /\ result.pkt.mqtt_len_offset = 2
  /\ result.pkt.err = "none"
  /\ result.mqtt_msg_len = LongPayload
  /\ result.offset = Len(frame_in) - LongPayload

\* ------------------------------------------------------------------------
\* Further claims on the codec runs

\* C25: for every length field of at most 4 bytes (value at most
\* 268,435,455) the narrowing of the 64-bit decoded length to the 32-bit
\* unsigned frame length in the probe and to the 32-bit signed counter in
\* the decoder keeps the value: the frame length is
\* 1 + len_bytes + remaining_length, not wrapped, and the initial counter
\* is remaining_length, not negative.
C25_NarrowingsPreserve ==
  /\ (probe.st # "none" /\ HasField(tvb_in))
       => LET n == FieldBytes(tvb_in)
          IN  /\ FieldValue(tvb_in, n) <= MaxRemainingLength
              /\ probe.plen = MQTT_HDR_SIZE_BEFORE_LEN + n + FieldValue(tvb_in, n)
              /\ probe.plen >= MQTT_MIN_LEN
              /\ probe.plen <= MaxRemainingLength + 5
  /\ (hdr.st # "none" /\ HasField(tvb_in))
       => /\ hdr.mqtt_msg_len = FieldValue(tvb_in, FieldBytes(tvb_in))
          /\ hdr.mqtt_msg_len >= 0
          /\ hdr.mqtt_msg_len = hdr.msg_len

\* C25's case: the length field FF FF FF 7F, the largest of 4 bytes, went
\* through both narrowings.
C25_Witness ==
  /\ tvb_in = <<MQTT_PUBLISH * 16, 255, 255, 255, 127>>
  /\ enc_in = -1
  /\ probe.st = "ok" /\ probe.plen = 268435460
  /\ hdr.st = "ok" /\ hdr.mqtt_msg_len = 268435455

====
